---------------------------- MODULE Spec2Model ----------------------------
(* computeSales.py: total sales from a price catalogue and a sales record. *)
(* One run of main() is modelled as a state machine: the two loads, the    *)
(* abort check, the catalogue build, one step per sale line of the         *)
(* totalizing loop, and the report/save step.                              *)
EXTENDS Integers, Sequences, FiniteSets, TLC

(***************************************************************************)
(* Python values.  Every scalar is a tagged record with the same fields:   *)
(*   k = "int"  : the integer n                                            *)
(*   k = "str"  : the text s repeated n times (n = 1 for a JSON string)    *)
(*   k = "list" : a list of n elements, each the integer 1                 *)
(*   k = "None" : None (a JSON null, or the default of dict.get)           *)
(* Numbers are modelled as integers.                                       *)
(***************************************************************************)
PyInt(n) == [k |-> "int", n |-> n, s |-> ""]
PyText(s) == [k |-> "str", n |-> 1, s |-> s]
PyList(n) == [k |-> "list", n |-> n, s |-> ""]
None == [k |-> "None", n |-> 0, s |-> ""]
TypeError == [k |-> "TypeError", n |-> 0, s |-> ""]

\* A JSON object is a function from its keys (strings) to values.
EmptyDict == [x \in {} |-> None]

\* dict.get(key): the value, or None when the key is absent.
get(d, key) == IF key \in DOMAIN d THEN d[key] ELSE None

\* A loaded document: None, a list of objects, or one object (held in items[1]).
NoneDoc == [t |-> "None", items |-> <<>>]
ListDoc(items) == [t |-> "list", items |-> items]
DictDoc(d) == [t |-> "dict", items |-> <<d>>]

\* isinstance(x, dict)
IsDict(doc) == doc.t = "dict"

(***************************************************************************)
(* Bounds and input alphabets.                                             *)
(***************************************************************************)
MaxCatalogue == 2
MaxSales == 2

ProductRecords ==
    { ("title" :> PyText("Widget")) @@ ("price" :> PyInt(2)),
      ("title" :> PyText("Widget")) @@ ("price" :> PyInt(3)),
      ("title" :> PyText("Gadget")) @@ ("price" :> PyInt(3)),
      ("price" :> PyInt(2)),
      ("title" :> PyText("Widget")) }

FlatCatalogues ==
    { ("Widget" :> PyInt(2)),
      ("Widget" :> PyInt(2)) @@ ("Gadget" :> PyInt(3)) }

SaleRecords ==
    { ("Product" :> PyText("Widget")) @@ ("Quantity" :> PyInt(2)),
      ("Product" :> PyText("Widget")) @@ ("Quantity" :> PyInt(-1)),
      ("Product" :> PyText("Widget")) @@ ("Quantity" :> PyText("abc")),
      ("Product" :> PyText("Widget")) @@ ("Quantity" :> PyList(1)),
      ("Product" :> PyText("Widget")),
      ("Product" :> PyText("Gadget")) @@ ("Quantity" :> PyInt(2)),
      ("Product" :> PyText("Gadget")) @@ ("Quantity" :> PyText("abc")),
      ("Quantity" :> PyInt(2)),
      ("Widget" :> PyInt(3)) @@ ("Gadget" :> PyInt(1)) }

SeqsUpTo(S, n) == UNION { [1..m -> S] : m \in 0..n }

CatalogueDocs ==
    { ListDoc(items) : items \in SeqsUpTo(ProductRecords, MaxCatalogue) }
    \cup { DictDoc(d) : d \in ProductRecords \cup FlatCatalogues }
    \cup { NoneDoc }

SalesDocs ==
    { ListDoc(items) : items \in SeqsUpTo(SaleRecords, MaxSales) }
    \cup { NoneDoc }

\* What open()/json.load() does with a path: the file parses ("ok"), does not
\* exist ("missing"), is not JSON ("badjson"), or fails some other way
\* ("unreadable": an exception load_json does not catch).
FileOf(doc) == [status |-> "ok", doc |-> doc]
BadFiles == { [status |-> st, doc |-> NoneDoc] : st \in {"missing", "badjson", "unreadable"} }

VARIABLES argc, price_file, sales_file, pc, catalogue_json, sales_record,
          price_catalogue, total_cost, errors, idx, console, opened,
          results_file, exit_status

vars == <<argc, price_file, sales_file, pc, catalogue_json, sales_record,
          price_catalogue, total_cost, errors, idx, console, opened,
          results_file, exit_status>>

(***************************************************************************)
(* str(x) as a sequence of text pieces, and the two error messages.        *)
(***************************************************************************)
Digit(d) == CASE d = 0 -> "0" [] d = 1 -> "1" [] d = 2 -> "2" [] d = 3 -> "3"
              [] d = 4 -> "4" [] d = 5 -> "5" [] d = 6 -> "6" [] d = 7 -> "7"
              [] d = 8 -> "8" [] OTHER -> "9"

RECURSIVE Digits(_)
Digits(n) == IF n < 10 THEN <<Digit(n)>> ELSE Digits(n \div 10) \o <<Digit(n % 10)>>

RECURSIVE Repeat(_, _)
Repeat(piece, n) == IF n <= 0 THEN <<>> ELSE <<piece>> \o Repeat(piece, n - 1)

RECURSIVE ListItems(_)
ListItems(n) == IF n <= 0 THEN <<>>
                ELSE IF n = 1 THEN <<"1">>
                ELSE <<"1", ", ">> \o ListItems(n - 1)

PyStr(x) ==
    CASE x.k = "None" -> <<"None">>
      [] x.k = "int" -> IF x.n < 0 THEN <<"-">> \o Digits(-x.n) ELSE Digits(x.n)
      [] x.k = "str" -> Repeat(x.s, x.n)
      [] OTHER -> <<"[">> \o ListItems(x.n) \o <<"]">>

InvalidQuantityMessage(product, quantity) ==
    <<"Invalid quantity for product '">> \o PyStr(product) \o <<"': ">> \o PyStr(quantity)

\* Mutant: the message leaves out the product.
UnknownProductMessageNoName(product) ==
    <<"Unknown product in sales record: '", "'">>

UnknownProductMessage(product) ==
    <<"Unknown product in sales record: '">> \o PyStr(product) \o <<"'">>

(***************************************************************************)
(* Python's * and + on the values above.                                   *)
(***************************************************************************)
\* Mutant: the product of two numbers computed as their sum.
PyMulAdds(a, b) ==
    CASE a.k = "int" /\ b.k = "int" -> PyInt(a.n + b.n)
      [] a.k = "int" /\ b.k = "str" -> [k |-> "str", n |-> IF a.n > 0 THEN a.n * b.n ELSE 0, s |-> b.s]
      [] a.k = "int" /\ b.k = "list" -> PyList(IF a.n > 0 THEN a.n * b.n ELSE 0)
      [] OTHER -> TypeError

PyMul(a, b) ==
    CASE a.k = "int" /\ b.k = "int" -> PyInt(a.n * b.n)
      [] a.k = "int" /\ b.k = "str" -> [k |-> "str", n |-> IF a.n > 0 THEN a.n * b.n ELSE 0, s |-> b.s]
      [] a.k = "int" /\ b.k = "list" -> PyList(IF a.n > 0 THEN a.n * b.n ELSE 0)
      [] OTHER -> TypeError

\* Mutant: total_cost -= ... in place of total_cost += ...
PyAddSubtracts(a, b) ==
    CASE a.k = "int" /\ b.k = "int" -> PyInt(a.n - b.n)
      [] OTHER -> TypeError

PyAdd(a, b) ==
    CASE a.k = "int" /\ b.k = "int" -> PyInt(a.n + b.n)
      [] OTHER -> TypeError

(***************************************************************************)
(* build_price_catalogue_dict                                              *)
(***************************************************************************)
\* Mutant: an earlier record's price is kept when a title comes again.
AddProductFirstWins(price_dict, item) ==
    LET title == get(item, "title")
        price == get(item, "price")
    IN IF title # None /\ price # None /\ title \notin DOMAIN price_dict
       THEN [t \in DOMAIN price_dict \cup {title} |->
                IF t = title THEN price ELSE price_dict[t]]
       ELSE price_dict

\* Mutant: the title is not tested against None.
AddProductAnyTitle(price_dict, item) ==
    LET title == get(item, "title")
        price == get(item, "price")
    IN IF price # None
       THEN [t \in DOMAIN price_dict \cup {title} |->
                IF t = title THEN price ELSE price_dict[t]]
       ELSE price_dict

\* One iteration of the loop: price_dict[title] = price when both are present.
AddProduct(price_dict, item) ==
    LET title == get(item, "title")
        price == get(item, "price")
    IN IF title # None /\ price # None
       THEN [t \in DOMAIN price_dict \cup {title} |->
                IF t = title THEN price ELSE price_dict[t]]
       ELSE price_dict

RECURSIVE BuildFrom(_, _)
BuildFrom(price_dict, items) ==
    IF items = <<>> THEN price_dict
    ELSE BuildFrom(AddProduct(price_dict, Head(items)), Tail(items))

build_price_catalogue_dict(doc) ==
    LET items == IF IsDict(doc) THEN <<doc.items[1]>> ELSE doc.items
    IN BuildFrom(EmptyDict, items)

(***************************************************************************)
(* load_json                                                               *)
(***************************************************************************)
\* The value load_json returns for a file it can open or whose exception it catches.
load_json(file) == IF file.status = "ok" THEN file.doc ELSE NoneDoc

\* The line load_json prints, if any.
LoadDiagnostic(path, file) ==
    CASE file.status = "missing" -> << <<"Error: File not found -> ", path>> >>
      [] file.status = "badjson" -> << <<"Error: Invalid JSON format -> ", path>> >>
      [] OTHER -> <<>>

Init ==
    /\ argc \in 1..3
    /\ IF argc = 3
       THEN /\ price_file \in { FileOf(d) : d \in CatalogueDocs } \cup BadFiles
            /\ sales_file \in { FileOf(d) : d \in SalesDocs } \cup BadFiles
       ELSE /\ price_file = [status |-> "missing", doc |-> NoneDoc]
            /\ sales_file = [status |-> "missing", doc |-> NoneDoc]
    /\ pc = "start"
    /\ catalogue_json = NoneDoc
    /\ sales_record = NoneDoc
    /\ price_catalogue = EmptyDict
    /\ total_cost = PyInt(0)
    /\ errors = <<>>
    /\ idx = 1
    /\ console = <<>>
    /\ opened = <<>>
    /\ results_file = <<>>
    /\ exit_status = -1

(***************************************************************************)
(* compute_total_sales: the body of the loop for one sale.                 *)
(***************************************************************************)
\* Mutant: the TypeError handler records nothing.
ProcessedSaleSilent(catalogue, total, errs, sale) ==
    LET product == get(sale, "Product")
        quantity == get(sale, "Quantity")
    IN IF product \in DOMAIN catalogue
       THEN LET sum == LET prod == PyMul(catalogue[product], quantity)
                       IN IF prod = TypeError THEN TypeError ELSE PyAdd(total, prod)
            IN IF sum = TypeError
               THEN [total_cost |-> total, errors |-> errs]
               ELSE [total_cost |-> sum, errors |-> errs]
       ELSE [total_cost |-> total,
             errors |-> Append(errs, UnknownProductMessage(product))]

\* Mutant: errors.insert(0, ...) in place of errors.append(...).
ProcessedSalePrepends(catalogue, total, errs, sale) ==
    LET product == get(sale, "Product")
        quantity == get(sale, "Quantity")
    IN IF product \in DOMAIN catalogue
       THEN LET sum == LET prod == PyMul(catalogue[product], quantity)
                       IN IF prod = TypeError THEN TypeError ELSE PyAdd(total, prod)
            IN IF sum = TypeError
               THEN [total_cost |-> total,
                     errors |-> <<InvalidQuantityMessage(product, quantity)>> \o errs]
               ELSE [total_cost |-> sum, errors |-> errs]
       ELSE [total_cost |-> total,
             errors |-> <<UnknownProductMessage(product)>> \o errs]

\* The (total_cost, errors) after the loop body has run for `sale`.
ProcessedSale(catalogue, total, errs, sale) ==
    LET product == get(sale, "Product")
        quantity == get(sale, "Quantity")
    IN IF product \in DOMAIN catalogue
       THEN LET sum == LET prod == PyMul(catalogue[product], quantity)
                       IN IF prod = TypeError THEN TypeError ELSE PyAdd(total, prod)
            IN IF sum = TypeError
               THEN [total_cost |-> total,
                     errors |-> Append(errs, InvalidQuantityMessage(product, quantity))]
               ELSE [total_cost |-> sum, errors |-> errs]
       ELSE [total_cost |-> total,
             errors |-> Append(errs, UnknownProductMessage(product))]

(***************************************************************************)
(* main                                                                    *)
(***************************************************************************)
PricePath == "priceCatalogue.json"
SalesPath == "salesRecord.json"

\* Mutant: `and` in place of `or`.
MustAbortBoth(catalogue, sales) == catalogue = NoneDoc /\ sales = NoneDoc

\* if catalogue_json is None or sales_record is None
MustAbort(catalogue, sales) == catalogue = NoneDoc \/ sales = NoneDoc

\* len(sys.argv) < 3: usage message, exit status 1.
Usage ==
    /\ pc = "start"
    /\ argc < 3
    /\ console' = Append(console, <<"Usage: python computeSales.py priceCatalogue.json salesRecord.json">>)
    /\ exit_status' = 1
    /\ pc' = "exited"
    /\ UNCHANGED <<argc, price_file, sales_file, catalogue_json, sales_record,
                   price_catalogue, total_cost, errors, idx, opened, results_file>>

\* catalogue_json = load_json(price_file)
LoadCatalogue ==
    /\ pc = "start"
    /\ argc >= 3
    /\ opened' = Append(opened, PricePath)
    /\ IF price_file.status = "unreadable"
       THEN /\ pc' = "exited"
            /\ exit_status' = 1
            /\ UNCHANGED <<catalogue_json, console>>
       ELSE /\ catalogue_json' = load_json(price_file)
            /\ console' = console \o LoadDiagnostic(PricePath, price_file)
            /\ pc' = "load_sales"
            /\ UNCHANGED exit_status
    /\ UNCHANGED <<argc, price_file, sales_file, sales_record, price_catalogue,
                   total_cost, errors, idx, results_file>>

\* sales_record = load_json(sales_file)
LoadSales ==
    /\ pc = "load_sales"
    /\ opened' = Append(opened, SalesPath)
    /\ IF sales_file.status = "unreadable"
       THEN /\ pc' = "exited"
            /\ exit_status' = 1
            /\ UNCHANGED <<sales_record, console>>
       ELSE /\ sales_record' = load_json(sales_file)
            /\ console' = console \o LoadDiagnostic(SalesPath, sales_file)
            /\ pc' = "check"
            /\ UNCHANGED exit_status
    /\ UNCHANGED <<argc, price_file, sales_file, catalogue_json, price_catalogue,
                   total_cost, errors, idx, results_file>>

\* The abort branch: message, sys.exit(1).
Abort ==
    /\ pc = "check"
    /\ MustAbort(catalogue_json, sales_record)
    /\ console' = Append(console, <<"Cannot continue due to previous errors.">>)
    /\ exit_status' = 1
    /\ pc' = "exited"
    /\ UNCHANGED <<argc, price_file, sales_file, catalogue_json, sales_record,
                   price_catalogue, total_cost, errors, idx, opened, results_file>>

\* price_catalogue = build_price_catalogue_dict(catalogue_json), then the
\* first two lines of compute_total_sales.
BuildCatalogue ==
    /\ pc = "check"
    /\ ~MustAbort(catalogue_json, sales_record)
    /\ price_catalogue' = build_price_catalogue_dict(catalogue_json)
    /\ total_cost' = PyInt(0)
    /\ errors' = <<>>
    /\ idx' = 1
    /\ pc' = "total"
    /\ UNCHANGED <<argc, price_file, sales_file, catalogue_json, sales_record,
                   console, opened, results_file, exit_status>>

\* One iteration of `for sale in sales_record`.
ProcessSale ==
    /\ pc = "total"
    /\ idx <= Len(sales_record.items)
    /\ LET r == ProcessedSale(price_catalogue, total_cost, errors, sales_record.items[idx])
       IN /\ total_cost' = r.total_cost
          /\ errors' = r.errors
    /\ idx' = idx + 1
    /\ UNCHANGED <<argc, price_file, sales_file, pc, catalogue_json, sales_record,
                   price_catalogue, console, opened, results_file, exit_status>>

\* What main prints and save_results writes: the total and the error lines.
ReportOf(total, errs) == [total_cost |-> total, errors |-> errs]

\* The loop is over: compute_total_sales returns, main prints the report and
\* save_results writes SalesResults.txt; the process ends with status 0.
Report ==
    /\ pc = "total"
    /\ idx > Len(sales_record.items)
    /\ console' = Append(console, <<"Sales Computation Results">>)
    /\ results_file' = <<ReportOf(total_cost, errors)>>
    /\ exit_status' = 0
    /\ pc' = "exited"
    /\ UNCHANGED <<argc, price_file, sales_file, catalogue_json, sales_record,
                   price_catalogue, total_cost, errors, idx, opened>>

Next ==
    \/ Usage
    \/ LoadCatalogue
    \/ LoadSales
    \/ Abort
    \/ BuildCatalogue
    \/ ProcessSale
    \/ Report

Spec == Init /\ [][Next]_vars

(***************************************************************************)
(* Vocabulary of the properties, stated on the inputs and independent of   *)
(* the way the loop computes.                                              *)
(***************************************************************************)
Sales == sales_record.items

\* compute_total_sales has run to its return (and main may have gone on).
Finished == /\ pc \in {"total", "exited"}
            /\ exit_status # 1
            /\ idx > Len(Sales)

\* The loop is about to run its body for Sales[idx].
AtSale == pc = "total" /\ idx <= Len(Sales)

ProductField(sale) == IF "Product" \in DOMAIN sale THEN sale["Product"] ELSE None
QuantityField(sale) == IF "Quantity" \in DOMAIN sale THEN sale["Quantity"] ELSE None

IsNumeric(v) == v.k = "int"

\* The three outcomes of a sale line.
Outcome(catalogue, sale) ==
    IF ProductField(sale) \notin DOMAIN catalogue THEN "unknown"
    ELSE IF IsNumeric(QuantityField(sale)) THEN "added"
    ELSE "invalid"

ProductText(product) == IF product.k = "str" THEN product.s ELSE "None"

QuantityText(quantity) ==
    CASE quantity.k = "str" -> <<quantity.s>>
      [] quantity.k = "list" -> <<"[", "1", "]">>
      [] OTHER -> <<"None">>

UnknownText(sale) ==
    <<"Unknown product in sales record: '", ProductText(ProductField(sale)), "'">>

InvalidText(sale) ==
    <<"Invalid quantity for product '", ProductText(ProductField(sale)), "': ">>
        \o QuantityText(QuantityField(sale))

RECURSIVE ExpectedErrors(_, _)
ExpectedErrors(catalogue, sales) ==
    IF sales = <<>> THEN <<>>
    ELSE LET o == Outcome(catalogue, Head(sales))
         IN (CASE o = "unknown" -> <<UnknownText(Head(sales))>>
               [] o = "invalid" -> <<InvalidText(Head(sales))>>
               [] OTHER -> <<>>) \o ExpectedErrors(catalogue, Tail(sales))

RECURSIVE ExpectedTotal(_, _)
ExpectedTotal(catalogue, sales) ==
    IF sales = <<>> THEN 0
    ELSE (IF Outcome(catalogue, Head(sales)) = "added"
          THEN catalogue[ProductField(Head(sales))].n * QuantityField(Head(sales)).n
          ELSE 0) + ExpectedTotal(catalogue, Tail(sales))

Rejected(catalogue, sales) ==
    { j \in 1..Len(sales) : Outcome(catalogue, sales[j]) # "added" }

(***************************************************************************)
(* C1: when every sale's product is a key of the catalogue and every       *)
(* quantity is numeric, compute_total_sales returns the sum of             *)
(* catalogue[product] * quantity over all sales and an empty errors list.  *)
(***************************************************************************)
AllPriced ==
    \A j \in 1..Len(Sales) :
        /\ ProductField(Sales[j]) \in DOMAIN price_catalogue
        /\ IsNumeric(QuantityField(Sales[j]))

RECURSIVE SumOfSales(_, _)
SumOfSales(catalogue, sales) ==
    IF sales = <<>> THEN 0
    ELSE catalogue[ProductField(Head(sales))].n * QuantityField(Head(sales)).n
         + SumOfSales(catalogue, Tail(sales))

C1_TotalIsSum ==
    (Finished /\ AllPriced) =>
        /\ total_cost = PyInt(SumOfSales(price_catalogue, Sales))
        /\ errors = <<>>

C1_Witness ==
    /\ Finished
    /\ AllPriced
    /\ Len(Sales) >= 2
    /\ Sales[1] # Sales[2]
    /\ total_cost.n > 0

(***************************************************************************)
(* C2: a sale whose product is not a key of the catalogue appends exactly  *)
(* one "Unknown product in sales record: '<product>'" error at the end of  *)
(* errors, leaves total_cost unchanged, and the loop goes on to the next   *)
(* sale.                                                                   *)
(***************************************************************************)
C2_UnknownProduct ==
    [][ (AtSale /\ ProductField(Sales[idx]) \notin DOMAIN price_catalogue) =>
            /\ errors' = Append(errors, UnknownText(Sales[idx]))
            /\ total_cost' = total_cost
            /\ pc' = "total"
            /\ idx' = idx + 1 ]_vars

C2_Witness ==
    /\ pc = "total"
    /\ idx = 3
    /\ ProductField(Sales[1]) = PyText("Gadget")
    /\ PyText("Gadget") \notin DOMAIN price_catalogue
    /\ Outcome(price_catalogue, Sales[2]) = "added"
    /\ errors = << <<"Unknown product in sales record: '", "Gadget", "'">> >>
    /\ total_cost.n # 0

(***************************************************************************)
(* C3: a sale whose product is in the catalogue and whose quantity is text,*)
(* a list or absent appends exactly one "Invalid quantity for product      *)
(* '<product>': <quantity>" error, leaves total_cost as it was, and the    *)
(* loop goes on to the next sale.                                          *)
(***************************************************************************)
C3_InvalidQuantity ==
    [][ (/\ AtSale
         /\ ProductField(Sales[idx]) \in DOMAIN price_catalogue
         /\ QuantityField(Sales[idx]).k \in {"str", "list", "None"}) =>
            /\ errors' = Append(errors, InvalidText(Sales[idx]))
            /\ total_cost' = total_cost
            /\ pc' = "total"
            /\ idx' = idx + 1 ]_vars

C3_Witness ==
    /\ pc = "total"
    /\ idx = 3
    /\ total_cost = PyInt(4)
    /\ errors = << <<"Invalid quantity for product '", "Widget", "': ", "abc">> >>
    /\ Outcome(price_catalogue, Sales[2]) = "invalid"

(***************************************************************************)
(* C4: a catalogue document that is a flat mapping from product name to    *)
(* unit price is returned by the normalizer with every name -> price entry *)
(* kept.                                                                   *)
(***************************************************************************)
IsFlatMapping(doc) ==
    /\ IsDict(doc)
    /\ DOMAIN doc.items[1] \cap {"title", "price"} = {}

C4_FlatCatalogueKept ==
    (pc = "total" /\ IsFlatMapping(catalogue_json)) =>
        \A name \in DOMAIN catalogue_json.items[1] :
            /\ PyText(name) \in DOMAIN price_catalogue
            /\ price_catalogue[PyText(name)] = catalogue_json.items[1][name]

(***************************************************************************)
(* C5: for a sales document of (item name -> quantity) mappings, one sale  *)
(* line is processed per entry of every record, in record order and entry  *)
(* order: a known item adds price * value, an unknown one produces one     *)
(* unknown-product error naming it.                                        *)
(***************************************************************************)
IsMultiItem(sale) ==
    /\ DOMAIN sale # {}
    /\ DOMAIN sale \cap {"Product", "Quantity"} = {}

\* The order in which a record's entries stand in the document.
EntryOrder == <<"Widget", "Gadget">>

RECURSIVE EntriesOf(_, _)
EntriesOf(sale, keys) ==
    IF keys = <<>> THEN <<>>
    ELSE (IF Head(keys) \in DOMAIN sale
          THEN << ("Product" :> PyText(Head(keys))) @@ ("Quantity" :> sale[Head(keys)]) >>
          ELSE <<>>) \o EntriesOf(sale, Tail(keys))

RECURSIVE SaleLines(_)
SaleLines(sales) ==
    IF sales = <<>> THEN <<>>
    ELSE EntriesOf(Head(sales), EntryOrder) \o SaleLines(Tail(sales))

C5_MultiItemSales ==
    (/\ Finished
     /\ Sales # <<>>
     /\ \A j \in 1..Len(Sales) : IsMultiItem(Sales[j])) =>
        /\ total_cost = PyInt(ExpectedTotal(price_catalogue, SaleLines(Sales)))
        /\ errors = ExpectedErrors(price_catalogue, SaleLines(Sales))

(***************************************************************************)
(* C6: with two arguments both files are loaded even when the first load   *)
(* failed; when either load failed (missing file or invalid JSON) the run  *)
(* never reaches the catalogue build, the totalizing loop or the write of  *)
(* SalesResults.txt and ends with a non-zero exit status; the results file *)
(* is written only when both loads succeeded.                              *)
(***************************************************************************)
LoadFailed(file) == file.status \in {"missing", "badjson"}

C6_AbortAfterBothLoads ==
    argc = 3 =>
        /\ (LoadFailed(price_file) /\ pc \in {"check", "total", "exited"}) =>
               opened = <<PricePath, SalesPath>>
        /\ (LoadFailed(price_file) \/ LoadFailed(sales_file)) =>
               /\ pc # "total"
               /\ price_catalogue = EmptyDict
               /\ results_file = <<>>
               /\ (pc = "exited" => exit_status = 1)
        /\ results_file # <<>> =>
               /\ price_file.status = "ok"
               /\ sales_file.status = "ok"

C6_Witness ==
    /\ argc = 3
    /\ pc = "exited"
    /\ price_file.status = "missing"
    /\ sales_file.status = "ok"
    /\ sales_file.doc # NoneDoc
    /\ opened = <<PricePath, SalesPath>>
    /\ exit_status = 1
    /\ results_file = <<>>

(***************************************************************************)
(* C7: the built catalogue's keys are exactly the titles of the records    *)
(* that have both a title and a price, each mapped to the price of the     *)
(* last such record with that title; other records are dropped and the     *)
(* stage produces no error.                                                *)
(***************************************************************************)
Complete(item) ==
    /\ "title" \in DOMAIN item
    /\ "price" \in DOMAIN item
    /\ item["title"] # None
    /\ item["price"] # None

C7_LastPriceWins ==
    pc = "total" =>
        LET items == catalogue_json.items
            complete == { j \in 1..Len(items) : Complete(items[j]) }
        IN /\ DOMAIN price_catalogue = { items[j]["title"] : j \in complete }
           /\ \A j \in complete :
                  (\A m \in complete : m > j => items[m]["title"] # items[j]["title"])
                      => price_catalogue[items[j]["title"]] = items[j]["price"]
           /\ idx = 1 => errors = <<>>

C7_Witness ==
    /\ pc = "total"
    /\ catalogue_json.t = "list"
    /\ Len(catalogue_json.items) = 2
    /\ Complete(catalogue_json.items[1])
    /\ Complete(catalogue_json.items[2])
    /\ catalogue_json.items[1]["title"] = catalogue_json.items[2]["title"]
    /\ catalogue_json.items[1]["price"] # catalogue_json.items[2]["price"]
    /\ price_catalogue[catalogue_json.items[2]["title"]] = catalogue_json.items[2]["price"]

(***************************************************************************)
(* C8 as stated: total_cost never decreases from one step to the next.     *)
(***************************************************************************)
C8_NeverDecreases == [][total_cost'.n >= total_cost.n]_vars

(***************************************************************************)
(* C8 amended: total_cost starts at zero, and a sale line lowers it only   *)
(* when the line is priced and price * quantity is negative; every         *)
(* rejected line and every priced line with a non-negative price *         *)
(* quantity leaves the running total greater than or equal to its value    *)
(* before the line.                                                        *)
(***************************************************************************)
NegativeLine(catalogue, sale) ==
    /\ Outcome(catalogue, sale) = "added"
    /\ catalogue[ProductField(sale)].n * QuantityField(sale).n < 0

C8_DecreasesOnlyOnNegativeLine ==
    [][ /\ (pc' = "total" /\ idx' = 1) => total_cost' = PyInt(0)
        /\ (AtSale /\ ~NegativeLine(price_catalogue, Sales[idx])) =>
               total_cost'.n >= total_cost.n ]_vars

C8_Witness ==
    /\ pc = "total"
    /\ idx = 3
    /\ Outcome(price_catalogue, Sales[1]) = "added"
    /\ Outcome(price_catalogue, Sales[2]) = "added"
    /\ QuantityField(Sales[1]).n > 0
    /\ QuantityField(Sales[2]).n > 0
    /\ total_cost.n >= 8

(***************************************************************************)
(* C9: None is never a key of the built catalogue, so a sale record with   *)
(* no "Product" field always gets one unknown-product error and leaves     *)
(* total_cost unchanged.                                                   *)
(***************************************************************************)
C9_MissingProductIsUnknown ==
    [][ /\ None \notin DOMAIN price_catalogue'
        /\ (AtSale /\ "Product" \notin DOMAIN Sales[idx]) =>
               /\ errors' = Append(errors, <<"Unknown product in sales record: '", "None", "'">>)
               /\ total_cost' = total_cost ]_vars

C9_Witness ==
    /\ pc = "total"
    /\ idx = 2
    /\ Sales[1] = ("Quantity" :> PyInt(2))
    /\ \E j \in 1..Len(catalogue_json.items) :
           /\ "title" \notin DOMAIN catalogue_json.items[j]
           /\ "price" \in DOMAIN catalogue_json.items[j]
    /\ price_catalogue # EmptyDict
    /\ Len(errors) = 1
    /\ total_cost = PyInt(0)

(***************************************************************************)
(* C10: after any prefix of the sales has been processed, errors holds     *)
(* exactly the messages of the prefix's rejected lines, one per rejected   *)
(* line in input order, and total_cost is the sum over the other lines;    *)
(* the final report holds the same for the whole sequence.                 *)
(***************************************************************************)
C10_ErrorsFollowInput ==
    /\ pc = "total" =>
           LET done == SubSeq(Sales, 1, idx - 1)
           IN /\ errors = ExpectedErrors(price_catalogue, done)
              /\ Len(errors) = Cardinality(Rejected(price_catalogue, done))
              /\ total_cost = PyInt(ExpectedTotal(price_catalogue, done))
    /\ results_file # <<>> =>
           /\ results_file[1].errors = ExpectedErrors(price_catalogue, Sales)
           /\ results_file[1].total_cost = PyInt(ExpectedTotal(price_catalogue, Sales))

C10_Witness ==
    /\ results_file # <<>>
    /\ Len(Sales) = 2
    /\ Outcome(price_catalogue, Sales[1]) = "invalid"
    /\ Outcome(price_catalogue, Sales[2]) = "unknown"
    /\ Len(results_file[1].errors) = 2
    /\ results_file[1].errors[1] # results_file[1].errors[2]
=============================================================================
